---- MODULE Spec2Model ----
(***************************************************************************)
(* The unscented Kalman filter of src/src/ukf.cpp as a state machine.      *)
(*                                                                         *)
(* Numbers.  The code computes in IEEE doubles; the model computes in      *)
(* fixed point.  A value (position, speed, angle, rate, time step, a       *)
(* Cholesky factor) is an integer number of hundredths (VS), a covariance  *)
(* or variance an integer number of ten-thousandths (CS = VS * VS), so     *)
(* that the product of two values is a covariance without rescaling.  A    *)
(* quotient is rounded to the nearest integer (DivR).  Every literal of    *)
(* the source (0.15, 0.3, 0.03, 0.2, 0.01, 0.09, ...) is exact in these    *)
(* units.  The sigma-point weights are kept as exact fractions.            *)
(* Vectors and matrices are tuples; the code's index i is the model's      *)
(* index i + 1.                                                            *)
(***************************************************************************)
EXTENDS Integers, Sequences, FiniteSets, TLC

VS == 10 * 10
CS == VS * VS

\* M_PI in hundredths of a radian
M_PI == 314

Abs(a) == IF a < 0 THEN -a ELSE a

\* a / b of the code (b # 0), rounded to the nearest integer
DivR(a, b) ==
    LET n == IF b < 0 THEN -a ELSE a
        d == Abs(b)
    IN  n \div d + (IF 2 * (n % d) >= d THEN 1 ELSE 0)

\* a tuple with its entries evaluated once
Fix(f) == f \o << >>

\* the n-vector (F(1), ..., F(n)) and the n x m matrix of rows (F(i, 1), ..., F(i, m))
Vec(n, F(_)) == Fix([i \in 1..n |-> F(i)])
Mat(n, m, F(_, _)) == Fix([i \in 1..n |-> Fix([j \in 1..m |-> F(i, j)])])

RECURSIVE SumFrom(_, _)
SumFrom(s, i) == IF i > Len(s) THEN 0 ELSE s[i] + SumFrom(s, i + 1)

\* F(1) + ... + F(n)
Sum(n, F(_)) == SumFrom(Vec(n, F), 1)

RECURSIVE SqrtIter(_, _)
SqrtIter(n, r) ==
    LET r2 == (r + n \div r) \div 2
    IN  IF r2 >= r THEN r ELSE SqrtIter(n, r2)

\* sqrt(n) for n >= 0, rounded to the nearest integer
ISqrt(n) ==
    IF n <= 0 THEN 0
    ELSE LET r == SqrtIter(n, IF n < 46340 THEN n ELSE 46340)
         IN  IF (r + 1) * (r + 1) - n < n - r * r THEN r + 1 ELSE r

\* 100 * sin(a / 100) for a = 0 .. 157, rounded
SinTab ==
    << 0, 1, 2, 3, 4, 5, 6, 7, 8, 9, 10, 11, 12, 13, 14, 15, 16, 17, 18, 19, 20,
       21, 22, 23, 24, 25, 26, 27, 28, 29, 30, 31, 31, 32, 33, 34, 35, 36, 37,
       38, 39, 40, 41, 42, 43, 43, 44, 45, 46, 47, 48, 49, 50, 51, 51, 52, 53,
       54, 55, 56, 56, 57, 58, 59, 60, 61, 61, 62, 63, 64, 64, 65, 66, 67, 67,
       68, 69, 70, 70, 71, 72, 72, 73, 74, 74, 75, 76, 76, 77, 78, 78, 79, 80,
       80, 81, 81, 82, 82, 83, 84, 84, 85, 85, 86, 86, 87, 87, 88, 88, 89, 89,
       90, 90, 90, 91, 91, 92, 92, 92, 93, 93, 94, 94, 94, 95, 95, 95, 96, 96,
       96, 96, 97, 97, 97, 97, 98, 98, 98, 98, 98, 99, 99, 99, 99, 99, 99, 99,
       99, 100, 100, 100, 100, 100, 100, 100, 100, 100, 100 >>

\* sin(a), a in hundredths of a radian, the result in hundredths
Sin(a) ==
    LET m == a % (2 * M_PI)
        h == M_PI \div 2
    IN  IF m <= h THEN SinTab[m + 1]
        ELSE IF m <= M_PI THEN SinTab[M_PI - m + 1]
        ELSE IF m <= M_PI + h THEN -SinTab[m - M_PI + 1]
        ELSE -SinTab[2 * M_PI - m + 1]

Cos(a) == Sin(a + M_PI \div 2)

\* 100 * atan(t / 100) for t = 0 .. 100, rounded
AtanTab ==
    << 0, 1, 2, 3, 4, 5, 6, 7, 8, 9, 10, 11, 12, 13, 14, 15, 16, 17, 18, 19, 20,
       21, 22, 23, 24, 24, 25, 26, 27, 28, 29, 30, 31, 32, 33, 34, 35, 35, 36,
       37, 38, 39, 40, 41, 41, 42, 43, 44, 45, 46, 46, 47, 48, 49, 50, 50, 51,
       52, 53, 53, 54, 55, 55, 56, 57, 58, 58, 59, 60, 60, 61, 62, 62, 63, 64,
       64, 65, 66, 66, 67, 67, 68, 69, 69, 70, 70, 71, 72, 72, 73, 73, 74, 74,
       75, 75, 76, 76, 77, 78, 78, 79 >>

\* atan2(y, x) in hundredths of a radian
Atan2(y, x) ==
    LET ax == Abs(x)
        ay == Abs(y)
        base == IF ay <= ax THEN AtanTab[DivR(VS * ay, ax) + 1]
                ELSE M_PI \div 2 - AtanTab[DivR(VS * ax, ay) + 1]
    IN  IF x = 0 /\ y = 0 THEN 0
        ELSE IF x >= 0 THEN (IF y >= 0 THEN base ELSE -base)
        ELSE (IF y >= 0 THEN M_PI - base ELSE base - M_PI)

\* while (d > M_PI) d -= 2.*M_PI;
\* a faulty variant of WhileAbovePi: "if" in the place of "while"
IfAbovePi(d) == IF d > M_PI THEN d - 2 * M_PI ELSE d

RECURSIVE WhileAbovePi(_)
WhileAbovePi(d) == IF d > M_PI THEN WhileAbovePi(d - 2 * M_PI) ELSE d

\* while (d < -M_PI) d += 2.*M_PI;
RECURSIVE WhileBelowMinusPi(_)
WhileBelowMinusPi(d) == IF d < -M_PI THEN WhileBelowMinusPi(d + 2 * M_PI) ELSE d

\* the two loops the code labels "angle normalization", in their order
NormalizeAngle(d) == WhileBelowMinusPi(WhileAbovePi(d))

\* State dimension, augmented dimension, spreading parameter
n_x_ == 5
n_aug_ == n_x_ + 2
lambda_ == 3 - n_aug_

\* number of sigma points, 2 * n_aug_ + 1
NSig == 2 * n_aug_ + 1

\* weights_(i) = WNum(i + 1) / WDen:  lambda/(lambda+n_aug) and 0.5/(lambda+n_aug)
WDen == 2 * (lambda_ + n_aug_)
WNum(i) == IF i = 1 THEN 2 * lambda_ ELSE 1

\* contents of a vector or matrix that was allocated and never written
Uninit == << >>
\* a vector or matrix whose entries are NaN or infinite
NaNVec == << "nan" >>
NaNMat == << << "nan" >> >>

\* F(v): v is evaluated once and named by F's parameter
Let(v, F(_)) == F(v)

\* Column k of the factor: the pivot d and the entries below it, from the
\* matrix A and the columns before k, which are in L.
LLTColumn(A, L, n, k, d) ==
    Mat(n, n, LAMBDA i, j :
        IF j # k THEN L[i][j]
        ELSE IF i < k THEN 0
        ELSE IF i = k THEN d
        ELSE DivR(A[i][k] - Sum(k - 1, LAMBDA m : L[i][m] * L[k][m]), d))

\* P_aug.llt(): Eigen's in-place unblocked Cholesky from column k on (the
\* columns before it are in L).  A pivot x <= 0 stops it with info() =
\* NumericalIssue and leaves the remaining columns as they were.
RECURSIVE LLTFrom(_, _, _, _)
LLTFrom(A, n, k, L) ==
    IF k > n THEN [L |-> L, info |-> "Success"]
    ELSE Let(A[k][k] - Sum(k - 1, LAMBDA j : L[k][j] * L[k][j]), LAMBDA x :
           IF x <= 0 THEN [L |-> L, info |-> "NumericalIssue"]
           ELSE LLTFrom(A, n, k + 1, LLTColumn(A, L, n, k, ISqrt(x))))

\* P_aug.llt().matrixL(): the lower triangle of the matrix the factorization
\* worked in, whether or not it succeeded (the code never reads info())
LLT(A, n) ==
    LLTFrom(A, n, 1, Mat(n, n, LAMBDA i, j :
                           IF i >= j THEN DivR(A[i][j], VS) ELSE 0))

\* the augmented sigma points: column 0 is x_aug, columns i + 1 and
\* i + 1 + n_aug_ are x_aug +- sqrt(lambda_ + n_aug_) * L.col(i)
AugmentedSigmaPoints(x_aug, L) ==
    LET sqrt_lambda_n_aug == ISqrt((lambda_ + n_aug_) * CS)
    IN  Mat(NSig, n_aug_, LAMBDA i, r :
            IF i = 1 THEN x_aug[r]
            ELSE IF i <= n_aug_ + 1
            THEN x_aug[r] + DivR(sqrt_lambda_n_aug * L[r][i - 1], VS)
            ELSE x_aug[r] - DivR(sqrt_lambda_n_aug * L[r][i - 1 - n_aug_], VS))

\* the motion model of one augmented sigma point (the body of the loop that
\* predicts sigma points)
PredictSigmaPoint(s, delta_t) ==
    LET p_x == s[1]
        p_y == s[2]
        v == s[3]
        yaw == s[4]
        yawd == s[5]
        nu_a == s[6]
        nu_yawdd == s[7]
        yaw_t == yaw + DivR(yawd * delta_t, VS)
        \* fabs(yawd) > 0.001
        turning == Abs(yawd) * 10 > 1
        px_p == IF turning
                THEN p_x + DivR(v * (Sin(yaw_t) - Sin(yaw)), yawd)
                ELSE p_x + DivR(v * delta_t * Cos(yaw), CS)
        py_p == IF turning
                THEN p_y + DivR(v * (Cos(yaw) - Cos(yaw_t)), yawd)
                ELSE p_y + DivR(v * delta_t * Sin(yaw), CS)
    IN  << px_p + DivR(nu_a * delta_t * delta_t * Cos(yaw), 2 * CS * VS),
           py_p + DivR(nu_a * delta_t * delta_t * Sin(yaw), 2 * CS * VS),
           v + DivR(nu_a * delta_t, VS),
           yaw_t + DivR(nu_yawdd * delta_t * delta_t, 2 * CS),
           yawd + DivR(nu_yawdd * delta_t, VS) >>

\* the weighted mean of n-vectors: sum over i of weights_(i) * cols.col(i)
WeightedMean(cols, n) ==
    Vec(n, LAMBDA r : DivR(Sum(NSig, LAMBDA i : WNum(i) * cols[i][r]), WDen))

\* the weighted sum of outer products: sum of weights_(i) * a_i * b_i^T
WeightedOuter(as, bs, n, m) ==
    Mat(n, m, LAMBDA r, c :
        DivR(Sum(NSig, LAMBDA i : WNum(i) * as[i][r] * bs[i][c]), WDen))

\* Xsig_pred_.col(i) - x_ for every i, the heading component normalized
StateDiff(Xsig_pred, x) ==
    Mat(NSig, n_x_, LAMBDA i, r :
        IF r = 4 THEN NormalizeAngle(Xsig_pred[i][r] - x[r])
        ELSE Xsig_pred[i][r] - x[r])

\* the predicted mean and covariance from the predicted sigma points
PredictedMoments(Xsig_pred, info) ==
    Let(WeightedMean(Xsig_pred, n_x_), LAMBDA x :
    Let(StateDiff(Xsig_pred, x), LAMBDA x_diff :
        [x |-> x, P |-> WeightedOuter(x_diff, x_diff, n_x_, n_x_),
         Xsig_pred |-> Xsig_pred, info |-> info]))

\* UKF::Prediction: the new x_, P_ and Xsig_pred_, and what llt() reported.
\* Xsig_pred[i] is the column Xsig_pred_.col(i - 1).
Prediction(x, P, delta_t, std_a, std_yawdd) ==
    LET x_aug == Vec(n_aug_, LAMBDA i : IF i <= n_x_ THEN x[i] ELSE 0)
        P_aug == Mat(n_aug_, n_aug_, LAMBDA i, j :
                    IF i <= n_x_ /\ j <= n_x_ THEN P[i][j]
                    ELSE IF i # j THEN 0
                    ELSE IF i = n_x_ + 1 THEN std_a * std_a
                    ELSE std_yawdd * std_yawdd)
    IN  IF x = NaNVec \/ P = NaNMat
        THEN [x |-> NaNVec, P |-> NaNMat, Xsig_pred |-> NaNMat, info |-> "Success"]
        ELSE Let(LLT(P_aug, n_aug_), LAMBDA llt :
             Let(AugmentedSigmaPoints(x_aug, llt.L), LAMBDA Xsig_aug :
                 PredictedMoments(
                     Vec(NSig, LAMBDA i : PredictSigmaPoint(Xsig_aug[i], delta_t)),
                     llt.info)))

Diag5(a, b, c, d, e) ==
    << <<a, 0, 0, 0, 0>>, <<0, b, 0, 0, 0>>, <<0, 0, c, 0, 0>>,
       <<0, 0, 0, d, 0>>, <<0, 0, 0, 0, e>> >>

\* the matrix product A * B of an n x m and an m x p matrix, A's entries in
\* units of 1 / scale
MatMul(A, B, n, m, p, scale) ==
    Mat(n, p, LAMBDA i, j : DivR(Sum(m, LAMBDA k : A[i][k] * B[k][j]), scale))

Transpose(A, n, m) == Mat(m, n, LAMBDA i, j : A[j][i])

\* the row of r .. n with the largest |A[row][k]| (partial pivoting)
RECURSIVE PivotRow(_, _, _, _, _)
PivotRow(A, n, k, r, best) ==
    IF r > n THEN best
    ELSE PivotRow(A, n, k, r + 1,
                  IF Abs(A[r][k]) > Abs(A[best][k]) THEN r ELSE best)

\* rows k and p of A exchanged
SwapRows(A, n, k, p) ==
    Vec(n, LAMBDA i : A[IF i = k THEN p ELSE IF i = p THEN k ELSE i])

\* row k's multiples subtracted from the other rows of B, by the column k of A
Reduce(A, B, n, k) ==
    Mat(n, n, LAMBDA i, j :
        IF i = k THEN B[i][j] ELSE B[i][j] - DivR(A[i][k] * B[k][j], A[k][k]))

\* Gauss-Jordan elimination of [A | B] from column k on, with partial pivoting
RECURSIVE Eliminate(_, _, _, _)
EliminateColumn(A, B, n, k) ==
    IF A[k][k] = 0 THEN [A |-> A, B |-> B, invertible |-> FALSE]
    ELSE Eliminate(Reduce(A, A, n, k), Reduce(A, B, n, k), n, k + 1)
Eliminate(A, B, n, k) ==
    IF k > n THEN [A |-> A, B |-> B, invertible |-> TRUE]
    ELSE Let(PivotRow(A, n, k, k, k), LAMBDA p :
             EliminateColumn(SwapRows(A, n, k, p), SwapRows(B, n, k, p), n, k))

\* S.inverse() of an n x n matrix of covariances; the entries of the result
\* are in units of 1 / VS.  Eigen signals nothing for a singular S: the
\* entries of the result are then infinite or NaN (inv = NaNMat).
Inverse(S, n) ==
    Let(Eliminate(S, Mat(n, n, LAMBDA i, j : IF i = j THEN CS ELSE 0), n, 1),
        LAMBDA e :
          IF e.invertible
          THEN [inv |-> Mat(n, n, LAMBDA i, j : DivR(e.B[i][j] * VS, e.A[i][i])),
                invertible |-> TRUE]
          ELSE [inv |-> NaNMat, invertible |-> FALSE])

\* x_ = x_ + K * z_diff;  P_ = P_ - K*S*K.transpose();  and the NIS
\* z_diff.transpose() * S.inverse() * z_diff
ApplyGain(x, P, S, Sinv, K, z_raw, z_diff, n_z) ==
    LET Kz == Vec(n_x_, LAMBDA i :
                 DivR(Sum(n_z, LAMBDA j : K[i][j] * z_diff[j]), CS))
        KSKt == MatMul(MatMul(K, S, n_x_, n_z, n_z, CS),
                       Transpose(K, n_x_, n_z), n_x_, n_z, n_x_, CS)
        Sz == Vec(n_z, LAMBDA i :
                 DivR(Sum(n_z, LAMBDA j : Sinv[i][j] * z_diff[j]), VS))
    IN  [x |-> Vec(n_x_, LAMBDA i : x[i] + Kz[i]),
         P |-> Mat(n_x_, n_x_, LAMBDA i, j : P[i][j] - KSKt[i][j]),
         nis |-> DivR(Sum(n_z, LAMBDA i : z_diff[i] * Sz[i]), VS),
         z_raw |-> z_raw, z_diff |-> z_diff, invertible |-> TRUE]

\* Kalman gain K = Tc * S.inverse(), then the update.  A singular S makes
\* every entry of K, and so of x_ and P_, infinite or NaN.
GainAndUpdate(x, P, S, Tc, z_raw, z_diff, n_z) ==
    Let(Inverse(S, n_z), LAMBDA si :
        IF si.invertible
        THEN ApplyGain(x, P, S, si.inv, MatMul(Tc, si.inv, n_x_, n_z, n_z, VS),
                       z_raw, z_diff, n_z)
        ELSE [x |-> NaNVec, P |-> NaNMat, nis |-> 0,
              z_raw |-> z_raw, z_diff |-> z_diff, invertible |-> FALSE])

\* What UpdateLidar and UpdateRadar do once z_pred and the residuals
\* zd_i = Zsig.col(i) - z_pred are computed: S (with the noise R added), Tc,
\* the gain and the update.  z_raw is the innovation z - z_pred before the
\* code's angle normalization of its component 1, z_diff after it.
Correct(x, P, Xsig_pred, zd, R, z_raw, z_diff, n_z) ==
    LET S0 == WeightedOuter(zd, zd, n_z, n_z)
    IN  GainAndUpdate(x, P, Mat(n_z, n_z, LAMBDA i, j : S0[i][j] + R[i][j]),
                      WeightedOuter(StateDiff(Xsig_pred, x), zd, n_x_, n_z),
                      z_raw, z_diff, n_z)

\* the state when an operand is already NaN: every result is NaN
AllNaN ==
    [x |-> NaNVec, P |-> NaNMat, nis |-> 0, z_raw |-> NaNVec,
     z_diff |-> NaNVec, invertible |-> TRUE]

\* the innovation of UpdateLidar: z - z_pred, then the code's "angle
\* normalization" of component 1 (p_y)
LidarInnovation(z_raw) == << z_raw[1], NormalizeAngle(z_raw[2]) >>

\* UpdateLidar from Zsig and z_pred on
LidarCorrect(x, P, Xsig_pred, Zsig, z_pred, z, std_laspx, std_laspy) ==
    Let(Vec(2, LAMBDA r : z[r] - z_pred[r]), LAMBDA z_raw :
        Correct(x, P, Xsig_pred,
                Mat(NSig, 2, LAMBDA i, r : Zsig[i][r] - z_pred[r]),
                << <<std_laspx * std_laspx, 0>>, <<0, std_laspy * std_laspy>> >>,
                z_raw, LidarInnovation(z_raw), 2))

\* UKF::UpdateLidar; z is meas_package.raw_measurements_
UpdateLidar(x, P, Xsig_pred, z, std_laspx, std_laspy) ==
    IF x = NaNVec THEN AllNaN
    ELSE Let(Mat(NSig, 2, LAMBDA i, r : Xsig_pred[i][r]), LAMBDA Zsig :
             LidarCorrect(x, P, Xsig_pred, Zsig, WeightedMean(Zsig, 2), z,
                          std_laspx, std_laspy))

\* the measurement model of UpdateRadar for one predicted sigma point; the
\* division by a zero range gives NaN
RadarPoint(s) ==
    LET p_x == s[1]
        p_y == s[2]
        v == s[3]
        yaw == s[4]
        v1 == DivR(Cos(yaw) * v, VS)
        v2 == DivR(Sin(yaw) * v, VS)
        r == ISqrt(p_x * p_x + p_y * p_y)
    IN  IF r = 0 THEN NaNVec
        ELSE << r, Atan2(p_y, p_x), DivR(p_x * v1 + p_y * v2, r) >>

\* the innovation of UpdateRadar: z - z_pred with the bearing normalized
RadarInnovation(z_raw) == << z_raw[1], NormalizeAngle(z_raw[2]), z_raw[3] >>

\* UpdateRadar from Zsig and z_pred on
RadarCorrect(x, P, Xsig_pred, Zsig, z_pred, z, std_radr, std_radphi, std_radrd) ==
    Let(Vec(3, LAMBDA r : z[r] - z_pred[r]), LAMBDA z_raw :
        Correct(x, P, Xsig_pred,
                Mat(NSig, 3, LAMBDA i, r :
                    IF r = 2 THEN NormalizeAngle(Zsig[i][r] - z_pred[r])
                    ELSE Zsig[i][r] - z_pred[r]),
                << <<std_radr * std_radr, 0, 0>>,
                   <<0, std_radphi * std_radphi, 0>>,
                   <<0, 0, std_radrd * std_radrd>> >>,
                z_raw, RadarInnovation(z_raw), 3))

\* UKF::UpdateRadar; z is meas_package.raw_measurements_
UpdateRadar(x, P, Xsig_pred, z, std_radr, std_radphi, std_radrd) ==
    IF x = NaNVec THEN AllNaN
    ELSE Let(Vec(NSig, LAMBDA i : RadarPoint(Xsig_pred[i])), LAMBDA Zsig :
             IF \E i \in 1..NSig : Zsig[i] = NaNVec THEN AllNaN
             ELSE RadarCorrect(x, P, Xsig_pred, Zsig, WeightedMean(Zsig, 3), z,
                               std_radr, std_radphi, std_radrd))

(***************************************************************************)
(* The estimator's members.  use_laser_ and use_radar_ are the two         *)
(* switches the constructor sets; std_* are the noise parameters; log is   *)
(* a history variable: one record for each ProcessMeasurement call so far. *)
(* angle is one difference of two angles, normalized in place the way the  *)
(* code does it (SpecNormalize); it is no member of the estimator.         *)
(***************************************************************************)
VARIABLES use_laser_, use_radar_, is_initialized_, time_us_, x_, P_,
          Xsig_pred_, std_a_, std_yawdd_, std_laspx_, std_laspy_,
          std_radr_, std_radphi_, std_radrd_, log, angle

config == <<use_laser_, std_a_, std_yawdd_, std_laspx_, std_laspy_,
            std_radr_, std_radphi_, std_radrd_>>
vars == <<use_laser_, use_radar_, is_initialized_, time_us_, x_, P_,
          Xsig_pred_, std_a_, std_yawdd_, std_laspx_, std_laspy_,
          std_radr_, std_radphi_, std_radrd_, log, angle>>
members == <<use_laser_, use_radar_, is_initialized_, time_us_, x_, P_,
             Xsig_pred_, std_a_, std_yawdd_, std_laspx_, std_laspy_,
             std_radr_, std_radphi_, std_radrd_, log>>

\* the number of ProcessMeasurement calls of a run
MaxCalls == 3
\* the differences of two angles that are normalized: up to MaxTurns * 2 * pi
\* on either side of 0
MaxTurns == 3

\* the timestamp (microseconds) before the first observation
StartTime == 1000 * 1000
\* the time between two observations, in microseconds
Elapsed == {0, 100 * 1000}
\* raw_measurements_ of a LASER observation: p_x, p_y
LaserZ == { <<500, 300>>, <<500, 700>> }
\* raw_measurements_ of a RADAR observation: rho, phi, rho_dot
RadarZ == { <<500, 0, 100>>, <<583, 54, 20>> }

\* the MeasurementPackage values handed in when the last timestamp was now
Packages(now) ==
    { [sensor_type_ |-> "LASER", timestamp_ |-> now + d, raw_measurements_ |-> z] :
        d \in Elapsed, z \in LaserZ }
    \cup
    { [sensor_type_ |-> "RADAR", timestamp_ |-> now + d, raw_measurements_ |-> z] :
        d \in Elapsed, z \in RadarZ }

\* What the 5 x 5 doubles of P_ can hold when Prediction reads them before
\* anything was written to them: fresh zeroed pages, or earlier heap contents
\* (here: not positive semi-definite, and positive definite).
Indeterminate ==
    { Diag5(0, 0, 0, 0, 0), Diag5(-400, 100, 100, 100, 100),
      Diag5(400, 400, 100, 100, 100) }

\* The constructor: both switches are literals of the constructor (true as
\* written; "if this is false, ... measurements will be ignored"), so a build
\* is any choice of the two.  x_, P_ and Xsig_pred_ are allocated and not
\* written; time_us_ is not written either and is never read before
\* ProcessMeasurement writes it.
Constructed ==
    /\ use_laser_ \in BOOLEAN
    /\ use_radar_ \in BOOLEAN
    /\ x_ = Uninit
    /\ P_ = Uninit
    /\ Xsig_pred_ = Uninit
    /\ std_a_ = 1 * VS
    /\ std_yawdd_ = 1 * VS
    /\ std_laspx_ = 15
    /\ std_laspy_ = 15
    /\ std_radr_ = 30
    /\ std_radphi_ = 3
    /\ std_radrd_ = 30
    /\ is_initialized_ = FALSE
    /\ time_us_ = 0
    /\ log = << >>

Init ==
    /\ Constructed
    /\ angle = [raw |-> 0, value |-> 0, done |-> TRUE]

\* the LASER branch of the initialization: x_ and P_
InitLaser(z) ==
    [x |-> << z[1], z[2], 20, 0, 0 >>, P |-> Diag5(100, 100, CS, CS, CS)]

\* a faulty variant of InitRadar: sin and cos exchanged
InitRadarSwapped(z) ==
    LET rho == z[1]
        phi == z[2]
        rho_dot == z[3]
    IN  [x |-> << DivR(rho * Sin(phi), VS), DivR(rho * Cos(phi), VS), rho_dot, phi, 0 >>,
         P |-> Diag5(100, 100, 100, 900, 900)]

\* the RADAR branch of the initialization: x_ and P_
InitRadar(z) ==
    LET rho == z[1]
        phi == z[2]
        rho_dot == z[3]
    IN  [x |-> << DivR(rho * Cos(phi), VS), DivR(rho * Sin(phi), VS), rho_dot, phi, 0 >>,
         P |-> Diag5(100, 100, 100, 900, 900)]

\* a faulty variant of Steps: the initialization block does not return
StepsWithoutReturn(initialized, sensor_type) ==
    (IF ~initialized THEN << "Initialize" >> ELSE << >>)
    \o << "Prediction" >>
    \o (IF sensor_type = "LASER" THEN << "UpdateLidar" >> ELSE << >>)
    \o (IF sensor_type = "RADAR" THEN << "UpdateRadar" >> ELSE << >>)

\* a faulty variant of Steps: the RADAR update is missing
StepsWithoutRadar(initialized, sensor_type) ==
    IF ~initialized THEN << "Initialize" >>
    ELSE << "Prediction" >>
         \o (IF sensor_type = "LASER" THEN << "UpdateLidar" >> ELSE << >>)

\* The functions one ProcessMeasurement call runs, in order: the
\* initialization block and its return, or Prediction and the update the
\* sensor type selects.
Steps(initialized, sensor_type) ==
    IF ~initialized THEN << "Initialize" >>
    ELSE << "Prediction" >>
         \o (IF sensor_type = "LASER" THEN << "UpdateLidar" >> ELSE << >>)
         \o (IF sensor_type = "RADAR" THEN << "UpdateRadar" >> ELSE << >>)

\* dt = (meas_package.timestamp_ - time_us_) / 1000000.0, in hundredths of a second
DeltaT(timestamp, time_us) == DivR(timestamp - time_us, 100 * VS)

\* The initialization block of ProcessMeasurement on the members m.
Initialize(m, meas) ==
    LET z == meas.raw_measurements_
        laser == meas.sensor_type_ = "LASER" /\ m.use_laser
        use_radar == IF laser THEN FALSE ELSE m.use_radar
        radar == meas.sensor_type_ = "RADAR" /\ use_radar
    IN  [m EXCEPT !.time_us = meas.timestamp_,
                  !.use_radar = use_radar,
                  !.x = IF radar THEN InitRadar(z).x
                        ELSE IF laser THEN InitLaser(z).x
                        ELSE << 0, 0, 0, 0, 0 >>,
                  !.P = IF radar THEN InitRadar(z).P
                        ELSE IF laser THEN InitLaser(z).P
                        ELSE m.P,
                  !.is_initialized = TRUE]

\* the members after Prediction returned pr
AfterPrediction(m, dt, pr) ==
    [m EXCEPT !.x = pr.x, !.P = pr.P, !.Xsig_pred = pr.Xsig_pred,
              !.delta_t = dt, !.info = pr.info]

\* the members after UpdateLidar or UpdateRadar returned u
AfterUpdate(m, u) ==
    [m EXCEPT !.x = u.x, !.P = u.P, !.nis = u.nis, !.z_raw = u.z_raw,
              !.z_diff = u.z_diff, !.invertible = u.invertible]

\* One step of a call on the members m; g is what P_ holds if it was never
\* written.
Run(step, m, meas, g) ==
    LET z == meas.raw_measurements_
        dt == DeltaT(meas.timestamp_, m.time_us)
    IN  CASE step = "Initialize" -> Initialize(m, meas)
          [] step = "Prediction" ->
               AfterPrediction(m, dt,
                   Prediction(m.x, IF m.P = Uninit THEN g ELSE m.P, dt,
                              m.std_a, m.std_yawdd))
          [] step = "UpdateLidar" ->
               AfterUpdate(m, UpdateLidar(m.x, m.P, m.Xsig_pred, z,
                                          m.std_laspx, m.std_laspy))
          [] step = "UpdateRadar" ->
               AfterUpdate(m, UpdateRadar(m.x, m.P, m.Xsig_pred, z,
                                          m.std_radr, m.std_radphi, m.std_radrd))

RECURSIVE RunAll(_, _, _, _)
RunAll(steps, m, meas, g) ==
    IF steps = << >> THEN m
    ELSE RunAll(Tail(steps), Run(Head(steps), m, meas, g), meas, g)

\* UKF::ProcessMeasurement(meas_package)
ProcessMeasurement(meas) ==
    \E g \in (IF P_ = Uninit THEN Indeterminate ELSE {P_}) :
    LET steps == Steps(is_initialized_, meas.sensor_type_)
        m0 == [use_laser |-> use_laser_, use_radar |-> use_radar_,
               is_initialized |-> is_initialized_, time_us |-> time_us_,
               x |-> x_, P |-> P_, Xsig_pred |-> Xsig_pred_,
               std_a |-> std_a_, std_yawdd |-> std_yawdd_,
               std_laspx |-> std_laspx_, std_laspy |-> std_laspy_,
               std_radr |-> std_radr_, std_radphi |-> std_radphi_,
               std_radrd |-> std_radrd_,
               delta_t |-> 0, info |-> "Success", invertible |-> TRUE,
               nis |-> 0, z_raw |-> << >>, z_diff |-> << >>]
    IN  \E m1 \in {RunAll(steps, m0, meas, g)} :
        /\ use_radar_' = m1.use_radar
        /\ is_initialized_' = m1.is_initialized
        /\ x_' = m1.x
        /\ P_' = m1.P
        /\ Xsig_pred_' = m1.Xsig_pred
        /\ time_us_' = IF is_initialized_ THEN meas.timestamp_ ELSE m1.time_us
        /\ log' = Append(log,
                    [meas |-> meas,
                     initialized |-> is_initialized_,
                     enabled |-> IF meas.sensor_type_ = "LASER" THEN use_laser_
                                 ELSE use_radar_,
                     x_before |-> x_, P_before |-> P_, time_before |-> time_us_,
                     steps |-> steps, delta_t |-> m1.delta_t, info |-> m1.info,
                     invertible |-> m1.invertible, nis |-> m1.nis,
                     z_raw |-> m1.z_raw, z_diff |-> m1.z_diff,
                     x_after |-> m1.x, P_after |-> m1.P])
        /\ UNCHANGED <<config, angle>>

Next ==
    /\ Len(log) < MaxCalls
    /\ \E meas \in Packages(IF log = << >> THEN StartTime ELSE time_us_) :
          ProcessMeasurement(meas)

Spec == Init /\ [][Next]_vars

(***************************************************************************)
(* The angle normalization on its own: a difference of two angles (a       *)
(* heading difference x_diff(3), a bearing difference z_diff(1)) is drawn  *)
(* from -MaxTurns * 2 * pi .. MaxTurns * 2 * pi and normalized in place.   *)
(***************************************************************************)
InitNormalize ==
    /\ Constructed
    /\ angle \in { [raw |-> r, value |-> r, done |-> FALSE] :
                     r \in (-MaxTurns * 2 * M_PI)..(MaxTurns * 2 * M_PI) }

Normalize ==
    /\ ~angle.done
    /\ angle' = [angle EXCEPT !.value = NormalizeAngle(angle.raw), !.done = TRUE]
    /\ UNCHANGED members

SpecNormalize == InitNormalize /\ [][Normalize]_vars

(***************************************************************************)
(* Properties.  Calls is the history of ProcessMeasurement calls; a call   *)
(* is "enabled" when the switch of its sensor was on as the call began.    *)
(***************************************************************************)
Calls == 1..Len(log)
Z(i) == log[i].meas.raw_measurements_
Sensor(i) == log[i].meas.sensor_type_
Updates == {"UpdateLidar", "UpdateRadar"}
Ran(i) == { log[i].steps[k] : k \in 1..Len(log[i].steps) }

\* what the specification says the initialization produces
FirstEstimate(i) ==
    IF Sensor(i) = "LASER"
    THEN [x |-> << Z(i)[1], Z(i)[2], 20, 0, 0 >>,
          P |-> Diag5(100, 100, CS, CS, CS)]
    ELSE [x |-> << DivR(Z(i)[1] * Cos(Z(i)[2]), VS),
                   DivR(Z(i)[1] * Sin(Z(i)[2]), VS), Z(i)[3], Z(i)[2], 0 >>,
          P |-> Diag5(100, 100, 100, 900, 900)]

C2_InitializingCall ==
    /\ \A i \in Calls :
         ~log[i].initialized =>
            /\ log[i].steps = << "Initialize" >>
            /\ log[i].enabled =>
                 IF Sensor(i) = "LASER"
                 THEN /\ log[i].x_after = InitLaser(Z(i)).x
                      /\ log[i].P_after = InitLaser(Z(i)).P
                 ELSE /\ log[i].x_after = InitRadar(Z(i)).x
                      /\ log[i].P_after = InitRadar(Z(i)).P
    /\ Len(log) = 1 =>
          /\ time_us_ = log[1].meas.timestamp_
          /\ is_initialized_
          /\ log[1].enabled => x_ = log[1].x_after /\ P_ = log[1].P_after

\* a LIDAR observation initialized the estimator at a timestamp of its own
C2_Witness ==
    /\ Len(log) = 1
    /\ ~log[1].initialized
    /\ log[1].enabled
    /\ Sensor(1) = "LASER"
    /\ log[1].time_before = 0
    /\ time_us_ = StartTime + 100 * 1000
    /\ is_initialized_
    /\ x_ = << 500, 700, 20, 0, 0 >>

C4_Stated ==
    \A i \in Calls :
        (log[i].initialized /\ ~log[i].enabled) =>
            /\ log[i].steps = << >>
            /\ log[i].x_after = log[i].x_before
            /\ log[i].P_after = log[i].P_before

\* C5 (as stated): the first observation of an enabled sensor performs the
\* initialization, whatever observations of disabled sensors preceded it.
C5_Stated ==
    \A i \in Calls :
        (log[i].enabled /\ \A j \in 1..(i - 1) : ~log[j].enabled) =>
            /\ log[i].steps = << "Initialize" >>
            /\ log[i].x_after = FirstEstimate(i).x
            /\ log[i].P_after = FirstEstimate(i).P

\* C6 (as stated): no step changes the configuration: the sensor switches
\* and the noise standard deviations keep the values of the construction.
C6_Stated ==
    [][/\ use_laser_' = use_laser_
       /\ use_radar_' = use_radar_
       /\ std_a_' = std_a_
       /\ std_yawdd_' = std_yawdd_
       /\ std_laspx_' = std_laspx_
       /\ std_laspy_' = std_laspy_
       /\ std_radr_' = std_radr_
       /\ std_radphi_' = std_radphi_
       /\ std_radrd_' = std_radrd_]_vars

\* C7 (as stated): a call in which the Cholesky factorization of the
\* augmented covariance fails, or the innovation covariance is singular,
\* runs no update after the failure and leaves no updated state behind.
C7_Stated ==
    \A i \in Calls :
        (log[i].info = "NumericalIssue" \/ ~log[i].invertible) =>
            /\ Ran(i) \cap Updates = {}
            /\ log[i].x_after = log[i].x_before
            /\ log[i].P_after = log[i].P_before

C9_Stated ==
    \A i \in Calls :
        "UpdateLidar" \in Ran(i) => log[i].z_diff = log[i].z_raw

====
